---- MODULE Spec2Model ----
(***************************************************************************)
(* A model of llm_webui/server.py: the argument-vector builders of         *)
(* /api/prompt and /api/chat, the buffered runner behind the listing       *)
(* endpoints, and the two streaming generators together with the child     *)
(* process, its pipes and the asyncio stream machinery they await on.      *)
(*                                                                         *)
(* Text is modelled as a sequence of one-character strings, so that        *)
(* tokenising, joining and prefixing are computed and not assumed.  An     *)
(* Optional[X] is <<>> for None and <<x>> for a value.                     *)
(***************************************************************************)
EXTENDS Integers, Sequences, FiniteSets, TLC

VARIABLES
    req,        \* the HTTP request being served
    hpc,        \* position of the endpoint handler
    cmd,        \* the argument vector the handler built
    run,        \* what subprocess.run met: the child's outcome
    resp,       \* the HTTP response the handler returned
    kind,       \* which generator streams: "none", "prompt", "chat"
    rpc,        \* position of the streaming generator
    chunks,     \* the chunks the generator has yielded so far
    raised,     \* the exception the generator's except clause caught
    errAcc,     \* blocks process.stderr.read() has collected
    cst,        \* child: "none", "running", "exited"
    exitCode,   \* child's exit status once exited
    cop,        \* child's write() call that is blocked on a full pipe
    outW,       \* bytes the child has written to stdout
    errW,       \* bytes the child has written to stderr
    readsStdin, \* whether this child ever reads its stdin
    rcSet,      \* the transport has recorded the child's return code
    outPipe,    \* OS pipe of the child's stdout
    outBuf,     \* StreamReader buffer of process.stdout
    outPaused,  \* process.stdout's transport is paused
    outEof,     \* process.stdout was fed EOF
    errPipe,    \* OS pipe of the child's stderr
    errBuf,     \* StreamReader buffer of process.stderr
    errPaused,  \* process.stderr's transport is paused
    errEof,     \* process.stderr was fed EOF
    sData,      \* the calls made on process.stdin, in order
    sbuf,       \* bytes waiting in the stdin transport's buffer
    spipe,      \* bytes in the OS pipe of the child's stdin
    sIn,        \* bytes the child has read from its stdin
    spaused,    \* the protocol was told to pause writing
    sclosing,   \* process.stdin.close() was called
    slost       \* the stdin transport lost its connection

vars == <<req, hpc, cmd, run, resp, kind, rpc, chunks, raised, errAcc, cst,
          exitCode, cop, outW, errW, readsStdin, rcSet, outPipe, outBuf,
          outPaused, outEof, errPipe, errBuf, errPaused, errEof, sData,
          sbuf, spipe, sIn, spaused, sclosing, slost>>

handlerVars == <<req, hpc, cmd, run, resp>>

streamVars == <<kind, rpc, chunks, raised, errAcc, cst, exitCode, cop, outW,
                errW, readsStdin, rcSet, outPipe, outBuf, outPaused, outEof,
                errPipe, errBuf, errPaused, errEof, sData, sbuf, spipe, sIn,
                spaused, sclosing, slost>>

----------------------------------------------------------------------------
(* Bounds of the model.                                                    *)

\* most bytes a child writes to its stdout
MaxOut == 2
\* most bytes a child writes to its stderr
MaxErr == 5
\* longest chat message streamed
MaxMsg == 2
\* longest extra-flags string enumerated character by character
MaxExtra == 3
\* the StreamReader limit (asyncio's default, 64 KiB), in model bytes
Limit == 1
\* capacity of an OS pipe, in model bytes
PipeCap == 1
\* high-water mark of the stdin write transport, in model bytes
HighWater == 1
\* most log rows the external tool lists when the rows are aggregated
MaxRows == 3
\* most log rows the external tool lists when any outcome of its run is drawn
MaxListed == 2

----------------------------------------------------------------------------
(* Sequences.                                                              *)

Min(a, b) == IF a <= b THEN a ELSE b

Last(s) == s[Len(s)]

RECURSIVE Flatten(_)
Flatten(ss) == IF ss = <<>> THEN <<>> ELSE Head(ss) \o Flatten(Tail(ss))

RECURSIVE IndexOf(_, _, _)
\* bytes.find / str.find: the least index >= i (0-based) holding x, or -1
IndexOf(s, x, i) ==
    IF i >= Len(s) THEN -1
    ELSE IF s[i + 1] = x THEN i
    ELSE IndexOf(s, x, i + 1)

Take(s, n) == SubSeq(s, 1, Min(n, Len(s)))

Drop(s, n) == SubSeq(s, Min(n, Len(s)) + 1, Len(s))

SeqsUpTo(S, n) == UNION {[1..k -> S] : k \in 0..n}

\* the subsequence that occurs at 1-based position i of s
OccursAt(s, sub, i) ==
    /\ i >= 1
    /\ i + Len(sub) - 1 <= Len(s)
    /\ SubSeq(s, i, i + Len(sub) - 1) = sub

Occurrences(s, sub) == {i \in 1..Len(s) : OccursAt(s, sub, i)}

----------------------------------------------------------------------------
(* Python values.                                                          *)

None == <<>>

Some(x) == <<x>>

\* truthiness of an Optional str, list or dict: None and empty are false
Truthy(o) == o # None /\ o[1] # <<>>

\* a JSON value of a Dict[str, Any]: <<tag, literal>>
PyStr(s) == <<"str", s>>
PyInt(d) == <<"int", d>>
PyTrue == <<"bool", <<"1">>>>

\* str(value)
Str(v) ==
    CASE v[1] = "str" -> v[2]
      [] v[1] = "int" -> v[2]
      [] v[1] = "bool" -> IF v[2] = <<"1">> THEN <<"T", "r", "u", "e">>
                          ELSE <<"F", "a", "l", "s", "e">>
      [] OTHER -> <<"N", "o", "n", "e">>

\* json.dumps of one value
JsonValue(v) ==
    CASE v[1] = "str" -> <<"\"">> \o v[2] \o <<"\"">>
      [] v[1] = "int" -> v[2]
      [] v[1] = "bool" -> IF v[2] = <<"1">> THEN <<"t", "r", "u", "e">>
                          ELSE <<"f", "a", "l", "s", "e">>
      [] OTHER -> <<"n", "u", "l", "l">>

RECURSIVE JsonItems(_)
JsonItems(d) ==
    IF d = <<>> THEN <<>>
    ELSE <<"\"">> \o d[1][1] \o <<"\"", ":", " ">> \o JsonValue(d[1][2])
         \o (IF Len(d) > 1 THEN <<",", " ">> ELSE <<>>)
         \o JsonItems(Tail(d))

\* json.dumps of a dict, given as its items in insertion order
JsonDumps(d) == <<"{">> \o JsonItems(d) \o <<"}">>

----------------------------------------------------------------------------
(* shlex.split(s): posix mode, whitespace_split, no comment characters.    *)

Whitespace == {" ", "\t", "\r", "\n"}
Quotes == {"'", "\""}
Escape == "\\"

\* the lexer state a read_token starts in, and the two ways a split ends
RECURSIVE Lex(_, _, _, _, _, _, _)
Lex(s, i, state, escapedstate, token, quoted, acc) ==
    LET eof == i > Len(s)
        c == IF eof THEN "" ELSE s[i]
        emit == IF token # <<>> \/ quoted THEN Append(acc, token) ELSE acc
    IN
    CASE state = " " ->
           IF eof THEN [ok |-> TRUE, toks |-> acc]
           ELSE IF c \in Whitespace
                THEN Lex(s, i + 1, " ", " ", <<>>, FALSE, acc)
           ELSE IF c = Escape
                THEN Lex(s, i + 1, Escape, "a", token, quoted, acc)
           ELSE IF c \in Quotes
                THEN Lex(s, i + 1, c, escapedstate, token, quoted, acc)
           ELSE Lex(s, i + 1, "a", escapedstate, <<c>>, quoted, acc)
      [] state \in Quotes ->
           IF eof THEN [ok |-> FALSE, toks |-> <<>>]
           ELSE IF c = state
                THEN Lex(s, i + 1, "a", escapedstate, token, TRUE, acc)
           ELSE IF c = Escape /\ state = "\""
                THEN Lex(s, i + 1, Escape, state, token, TRUE, acc)
           ELSE Lex(s, i + 1, state, escapedstate, Append(token, c), TRUE,
                    acc)
      [] state = Escape ->
           IF eof THEN [ok |-> FALSE, toks |-> <<>>]
           ELSE IF escapedstate \in Quotes /\ c # Escape /\ c # escapedstate
                THEN Lex(s, i + 1, escapedstate, escapedstate,
                         token \o <<Escape, c>>, quoted, acc)
           ELSE Lex(s, i + 1, escapedstate, escapedstate, Append(token, c),
                    quoted, acc)
      [] OTHER ->
           IF eof THEN [ok |-> TRUE, toks |-> emit]
           ELSE IF c \in Whitespace
                THEN Lex(s, i + 1, " ", " ", <<>>, FALSE, emit)
           ELSE IF c \in Quotes
                THEN Lex(s, i + 1, c, escapedstate, token, quoted, acc)
           ELSE IF c = Escape
                THEN Lex(s, i + 1, Escape, "a", token, quoted, acc)
           ELSE Lex(s, i + 1, "a", escapedstate, Append(token, c), quoted,
                    acc)

ShlexSplit(s) == Lex(s, 1, " ", " ", <<>>, FALSE, <<>>)

----------------------------------------------------------------------------
(* The command builders of execute_prompt and chat_message.                *)

Llm == <<"l", "l", "m">>
Flag(c) == <<"-", c>>
LongFlag(w) == <<"-", "-">> \o w

\* cmd.extend(["-m", x]) under "if x:"
OptArg(flag, o) == IF Truthy(o) THEN <<flag, o[1]>> ELSE <<>>

RECURSIVE ToolArgs(_)
\* for tool in tools: cmd.extend(["-T", tool])
ToolArgs(ts) ==
    IF ts = <<>> THEN <<>>
    ELSE <<Flag("T"), Head(ts)>> \o ToolArgs(Tail(ts))

RECURSIVE OptionItems(_)
\* for key, value in options.items(): cmd.extend(["-o", str(key), str(value)])
OptionItems(d) ==
    IF d = <<>> THEN <<>>
    ELSE <<Flag("o"), d[1][1], Str(d[1][2])>> \o OptionItems(Tail(d))

\* a mutant of AddOptions: the single-token key=value form
AddOptionsEq(o) ==
    IF ~Truthy(o) THEN <<>>
    ELSE Flatten([i \in 1..Len(o[1]) |->
                    <<Flag("o"), o[1][i][1] \o <<"=">> \o Str(o[1][i][2])>>])

\* add_options(options)
AddOptions(o) == IF ~Truthy(o) THEN <<>> ELSE OptionItems(o[1])

\* json.dumps never raises on a mapping parsed from a JSON body, so the
\* fallback add_options(request.reasoning) is not reached
ReasoningArgs(o) ==
    IF Truthy(o)
    THEN <<Flag("o"), <<"r", "e", "a", "s", "o", "n", "i", "n", "g">>,
           JsonDumps(o[1])>>
    ELSE <<>>

RECURSIVE AttachmentItems(_)
\* for path in attachments: cmd.extend(["-a", path])
AttachmentItems(ps) ==
    IF ps = <<>> THEN <<>>
    ELSE <<Flag("a"), Head(ps)>> \o AttachmentItems(Tail(ps))

AttachmentArgs(o) == IF Truthy(o) THEN AttachmentItems(o[1]) ELSE <<>>

RECURSIVE AttachmentTypeItems(_)
\* for path, mimetype in attachment_types: cmd.extend(["--at", path, mimetype])
AttachmentTypeItems(ps) ==
    IF ps = <<>> THEN <<>>
    ELSE <<LongFlag(<<"a", "t">>), Head(ps)[1], Head(ps)[2]>>
         \o AttachmentTypeItems(Tail(ps))

AttachmentTypeArgs(o) == IF Truthy(o) THEN AttachmentTypeItems(o[1]) ELSE <<>>

\* "for path, mimetype in ..." unpacks each inner list: one that does not
\* hold exactly two items raises ValueError, which no handler catches
UnpackOk(o) == ~Truthy(o) \/ \A i \in 1..Len(o[1]) : Len(o[1][i]) = 2

\* a mutant of ExtraTokens: a string shlex cannot split is passed as one token
ExtraTokensRaw(o) ==
    IF ~Truthy(o) THEN <<>>
    ELSE IF ShlexSplit(o[1]).ok THEN ShlexSplit(o[1]).toks
    ELSE <<o[1]>>

\* try: cmd.extend(shlex.split(extra_args)) except Exception: pass
ExtraTokens(o) ==
    IF ~Truthy(o) THEN <<>>
    ELSE IF ShlexSplit(o[1]).ok THEN ShlexSplit(o[1]).toks
    ELSE <<>>

\* the flags both builders put before the options
PromptHead(r) ==
    <<Llm, <<"p", "r", "o", "m", "p", "t">>>>
    \o OptArg(Flag("m"), r.model)
    \o OptArg(Flag("s"), r.system)
    \o OptArg(Flag("t"), r.template)
    \o (IF Truthy(r.tools) THEN ToolArgs(r.tools[1]) ELSE <<>>)

ChatHead(r) ==
    <<Llm, <<"c", "h", "a", "t">>>>
    \o OptArg(Flag("m"), r.model)
    \o OptArg(LongFlag(<<"c", "i", "d">>), r.conversation_id)
    \o OptArg(Flag("s"), r.system)
    \o (IF Truthy(r.tools) THEN ToolArgs(r.tools[1]) ELSE <<>>)

\* a mutant of PromptTail: the prompt is appended before the extra flags
PromptTailEarly(r) ==
    AttachmentArgs(r.attachments)
    \o AttachmentTypeArgs(r.attachment_types)
    \o <<r.text>>
    \o ExtraTokens(r.extra_args)

\* execute_prompt from "# Attachments" to cmd.append(request.prompt)
PromptTail(r) ==
    AttachmentArgs(r.attachments)
    \o AttachmentTypeArgs(r.attachment_types)
    \o ExtraTokens(r.extra_args)
    \o <<r.text>>

\* the cmd of execute_prompt
PromptCmd(r) ==
    PromptHead(r) \o AddOptions(r.options) \o ReasoningArgs(r.reasoning)
    \o PromptTail(r)

\* the cmd of chat_message: the message is not part of it
ChatCmd(r) ==
    ChatHead(r) \o AddOptions(r.options) \o ReasoningArgs(r.reasoning)
    \o ExtraTokens(r.extra_args)

----------------------------------------------------------------------------
(* Python string helpers the listing handlers use.                         *)

RECURSIVE LStrip(_)
LStrip(s) ==
    IF s # <<>> /\ Head(s) \in Whitespace THEN LStrip(Tail(s)) ELSE s

RECURSIVE RStrip(_)
RStrip(s) ==
    IF s # <<>> /\ Last(s) \in Whitespace
    THEN RStrip(SubSeq(s, 1, Len(s) - 1))
    ELSE s

\* str.strip()
Strip(s) == RStrip(LStrip(s))

RECURSIVE SplitAt(_, _, _)
\* str.split(sep) for a one-character sep: cur is the piece being read
SplitAt(s, sep, cur) ==
    IF s = <<>> THEN <<cur>>
    ELSE IF Head(s) = sep THEN <<cur>> \o SplitAt(Tail(s), sep, <<>>)
    ELSE SplitAt(Tail(s), sep, Append(cur, Head(s)))

RECURSIVE SplitWs(_, _)
\* str.split(): runs of whitespace separate, no empty pieces
SplitWs(s, cur) ==
    IF s = <<>> THEN (IF cur = <<>> THEN <<>> ELSE <<cur>>)
    ELSE IF Head(s) \in Whitespace
         THEN (IF cur = <<>> THEN <<>> ELSE <<cur>>) \o SplitWs(Tail(s), <<>>)
    ELSE SplitWs(Tail(s), Append(cur, Head(s)))

RECURSIVE Join(_, _)
\* sep.join(parts)
Join(sep, parts) ==
    IF parts = <<>> THEN <<>>
    ELSE IF Len(parts) = 1 THEN parts[1]
    ELSE parts[1] \o sep \o Join(sep, Tail(parts))

RECURSIVE NonBlankStripped(_)
\* [line.strip() for line in lines if line.strip()]
NonBlankStripped(lines) ==
    IF lines = <<>> THEN <<>>
    ELSE (IF Strip(Head(lines)) # <<>> THEN <<Strip(Head(lines))>> ELSE <<>>)
         \o NonBlankStripped(Tail(lines))

\* the order of the characters timestamps are written with
CharOrd(c) ==
    CASE c = "-" -> 45 [] c = "0" -> 48 [] c = "1" -> 49 [] c = "2" -> 50
      [] c = "3" -> 51 [] c = ":" -> 58 [] c = "T" -> 84 [] OTHER -> 120

RECURSIVE StrGreater(_, _)
\* a > b on Python strings
StrGreater(a, b) ==
    IF a = <<>> THEN FALSE
    ELSE IF b = <<>> THEN TRUE
    ELSE IF CharOrd(Head(a)) # CharOrd(Head(b))
         THEN CharOrd(Head(a)) > CharOrd(Head(b))
    ELSE StrGreater(Tail(a), Tail(b))

\* s[:n]
SliceTo(s, n) ==
    IF n >= 0 THEN Take(s, n)
    ELSE IF Len(s) + n > 0 THEN Take(s, Len(s) + n) ELSE <<>>

----------------------------------------------------------------------------
(* The child's stdout as a document: text that json.loads accepts, with    *)
(* the value it yields, or text it rejects.                                *)

JsonDoc(v) == <<"json", v>>
Garbage(s) == <<"text", s>>

\* json.loads(result.stdout)
JsonLoads(doc) ==
    IF doc[1] = "json" THEN [ok |-> TRUE, val |-> doc[2]]
    ELSE [ok |-> FALSE, val |-> <<>>]

----------------------------------------------------------------------------
(* list_conversations: grouping the log rows.                              *)

\* the position of conversation cid in convs, or 0
RECURSIVE ConvIndex(_, _, _)
ConvIndex(convs, cid, i) ==
    IF i > Len(convs) THEN 0
    ELSE IF convs[i].conversation_id = cid THEN i
    ELSE ConvIndex(convs, cid, i + 1)

\* a mutant of AddRow: the row is counted, the first row's timestamp is kept
AddRowKeepFirst(convs, row) ==
    IF ~Truthy(row.conversation_id) THEN convs
    ELSE
      LET cid == row.conversation_id[1]
          at == ConvIndex(convs, cid, 1)
      IN IF at = 0
         THEN Append(convs, [conversation_id |-> cid,
                             latest |-> row.datetime_utc,
                             model |-> row.model,
                             count |-> 1,
                             last_prompt |-> row.prompt])
         ELSE [convs EXCEPT ![at].count = @ + 1]

\* one turn of "for row in logs"
AddRow(convs, row) ==
    IF ~Truthy(row.conversation_id) THEN convs
    ELSE
      LET cid == row.conversation_id[1]
          at == ConvIndex(convs, cid, 1)
          base == IF at = 0
                  THEN Append(convs, [conversation_id |-> cid,
                                      latest |-> row.datetime_utc,
                                      model |-> row.model,
                                      count |-> 0,
                                      last_prompt |-> row.prompt])
                  ELSE convs
          k == IF at = 0 THEN Len(base) ELSE at
          conv == [base[k] EXCEPT !.count = @ + 1]
          newer == /\ Truthy(row.datetime_utc)
                   /\ \/ ~Truthy(conv.latest)
                      \/ StrGreater(row.datetime_utc[1], conv.latest[1])
      IN [base EXCEPT ![k] =
            IF newer
            THEN [conv EXCEPT !.latest = row.datetime_utc,
                              !.last_prompt = row.prompt,
                              !.model = row.model]
            ELSE conv]

RECURSIVE GroupRows(_, _)
GroupRows(convs, rows) ==
    IF rows = <<>> THEN convs
    ELSE GroupRows(AddRow(convs, Head(rows)), Tail(rows))

\* x["latest"] or ""
LatestKey(conv) == IF Truthy(conv.latest) THEN conv.latest[1] ELSE <<>>

RECURSIVE InsertDesc(_, _)
\* a stable insertion: x goes after every item whose key is not smaller
InsertDesc(sorted, x) ==
    IF sorted = <<>> THEN <<x>>
    ELSE IF StrGreater(LatestKey(x), LatestKey(Head(sorted)))
         THEN <<x>> \o sorted
    ELSE <<Head(sorted)>> \o InsertDesc(Tail(sorted), x)

RECURSIVE SortDesc(_, _)
\* sorted(convs.values(), key=..., reverse=True), which is stable
SortDesc(sorted, rest) ==
    IF rest = <<>> THEN sorted
    ELSE SortDesc(InsertDesc(sorted, Head(rest)), Tail(rest))

\* the value list_conversations returns for the parsed rows
Conversations(rows, limit) ==
    SliceTo(SortDesc(<<>>, GroupRows(<<>>, rows)), limit)

----------------------------------------------------------------------------
(* subprocess.run(cmd, capture_output=True, text=True) and the responses.  *)

ExitCodes == {0, 1, 2}

\* the child could not be started (FileNotFoundError)
NotSpawned == [spawned |-> FALSE, code |-> 0, out |-> <<>>, err |-> <<>>]

Exited(code, out, err) ==
    [spawned |-> TRUE, code |-> code, out |-> out, err |-> err]

Ok(body) == [status |-> 200, body |-> body]

\* raise HTTPException(status_code=500, detail=f"{prefix}{text}")
Http500(prefix, text) == [status |-> 500, body |-> <<prefix>> \o text]

\* an exception no handler catches: the framework answers 500
Unhandled == [status |-> 500, body |-> <<"Internal Server Error">>]

\* a mutant of Checked: check=True is dropped, stdout is returned
CheckedLax(o, prefix, onSuccess) ==
    IF ~o.spawned THEN Unhandled ELSE onSuccess

\* try: subprocess.run(..., check=True) ... except CalledProcessError as e:
\*     raise HTTPException(status_code=500, detail=f"{prefix}{e.stderr}")
Checked(o, prefix, onSuccess) ==
    IF ~o.spawned THEN Unhandled
    ELSE IF o.code # 0 THEN Http500(prefix, o.err)
    ELSE onSuccess

\* a mutant of ParsedOr: a parse failure is surfaced as a 500
ParsedOrFail(doc, fallback) ==
    IF JsonLoads(doc).ok THEN Ok(JsonLoads(doc).val)
    ELSE Http500("Failed to parse response", <<>>)

\* return json.loads(result.stdout) / except json.JSONDecodeError: return d
ParsedOr(doc, fallback) ==
    IF JsonLoads(doc).ok THEN Ok(JsonLoads(doc).val) ELSE Ok(fallback)

\* get_models
ModelsResponse(o) ==
    Checked(o, "Failed to get models: ",
            IF JsonLoads(o.out).ok THEN Ok(JsonLoads(o.out).val)
            ELSE Http500("Failed to parse models response", <<>>))

\* get_templates
TemplatesResponse(o) ==
    Checked(o, "Failed to get templates: ",
            Ok([templates |->
                  NonBlankStripped(SplitAt(Strip(o.out), "\n", <<>>))]))

\* get_tools
ToolsResponse(o) ==
    Checked(o, "Failed to get tools: ", ParsedOr(o.out, [tools |-> <<>>]))

\* get_logs
LogsResponse(o) ==
    Checked(o, "Failed to get logs: ", ParsedOr(o.out, [logs |-> <<>>]))

\* list_conversations
ConversationsResponse(o, limit) ==
    Checked(o, "Failed to list conversations: ",
            IF JsonLoads(o.out).ok
            THEN Ok(Conversations(JsonLoads(o.out).val, limit))
            ELSE Ok(<<>>))

\* get_conversation
ConversationResponse(o) ==
    Checked(o, "Failed to fetch conversation: ", ParsedOr(o.out, <<>>))

\* execute_prompt with stream=false
PromptResponse(o) ==
    Checked(o, "LLM command failed: ", Ok([response |-> o.out]))

\* str(e) of the FileNotFoundError a missing binary raises
NoSuchFile == <<"[Errno 2] No such file or directory: 'llm'">>

\* get_help: parts = shlex.split(path), or path.split() when that raises
HelpParts(path) ==
    IF ~Truthy(path) THEN <<>>
    ELSE IF ShlexSplit(path[1]).ok THEN ShlexSplit(path[1]).toks
    ELSE SplitWs(path[1], <<>>)

HelpCmd(path) == <<Llm>> \o HelpParts(path) \o <<LongFlag(<<"h", "e", "l", "p">>)>>

\* get_help runs with check=False and catches every exception
HelpResponse(o, c) ==
    IF ~o.spawned THEN Http500("Failed to run help: ", NoSuchFile)
    ELSE Ok([command |-> Join(<<" ">>, c),
             help |-> IF o.out # <<>> THEN o.out ELSE o.err])

Word(w) == w

ModelsCmd == <<Llm, Word(<<"m", "o", "d", "e", "l", "s">>),
               Word(<<"l", "i", "s", "t">>), LongFlag(<<"j", "s", "o", "n">>)>>

TemplatesCmd == <<Llm, Word(<<"t", "e", "m", "p", "l", "a", "t", "e", "s">>),
                  Word(<<"l", "i", "s", "t">>)>>

ToolsCmd == <<Llm, Word(<<"t", "o", "o", "l", "s">>),
              Word(<<"l", "i", "s", "t">>), LongFlag(<<"j", "s", "o", "n">>)>>

\* ["llm", "logs", "list", "-n", str(count), "--json"]
LogsCmd(n) == <<Llm, Word(<<"l", "o", "g", "s">>), Word(<<"l", "i", "s", "t">>),
                Flag("n"), Str(n), LongFlag(<<"j", "s", "o", "n">>)>>

\* ["llm", "logs", "list", "--cid", cid, "--json"]
ConversationCmd(cid) ==
    <<Llm, Word(<<"l", "o", "g", "s">>), Word(<<"l", "i", "s", "t">>),
      LongFlag(<<"c", "i", "d">>), cid, LongFlag(<<"j", "s", "o", "n">>)>>

----------------------------------------------------------------------------
(* Requests and child outcomes the handlers are run on.                    *)

\* a request with every optional field left out
BaseReq(ep, text) ==
    [ep |-> ep, text |-> text, model |-> None, conversation_id |-> None,
     system |-> None, template |-> None, tools |-> None, options |-> None,
     reasoning |-> None, attachments |-> None, attachment_types |-> None,
     extra_args |-> None, stream |-> TRUE, param |-> None]

ErrTexts == {<<>>, <<"e">>}

OutTexts == {<<>>, <<"h", "i">>}

TemplateTexts == SeqsUpTo({"t", " ", "\n"}, 3)

Docs == {JsonDoc(<<>>), JsonDoc(<<"v">>), Garbage(<<>>), Garbage(<<"x">>)}

\* the rows of the log: model m asked p, model n asked q
LogRows ==
    {[conversation_id |-> c, datetime_utc |-> t, model |-> mp[1],
      prompt |-> mp[2]] :
        c \in {None, Some(<<"a">>), Some(<<"b">>)},
        t \in {None, Some(<<"2">>), Some(<<"1", "0">>)},
        mp \in {<<Some(<<"m">>), Some(<<"p">>)>>,
                <<Some(<<"n">>), Some(<<"q">>)>>}}

RowDocs == {JsonDoc(rows) : rows \in SeqsUpTo(LogRows, MaxListed)}
           \cup {Garbage(<<>>), Garbage(<<"x">>)}

\* clean runs of "llm logs list -n 0 --json": exit 0 and a list of rows
CleanRuns == {Exited(0, JsonDoc(rows), <<>>) : rows \in SeqsUpTo(LogRows, MaxRows)}

Outcomes(outs) ==
    {NotSpawned}
    \cup {Exited(c, o, e) : c \in ExitCodes, o \in outs, e \in ErrTexts}

----------------------------------------------------------------------------
(* The endpoint handlers.  Each action is one whole handler.               *)

Idle ==
    /\ kind = "none" /\ rpc = "NotStarted" /\ chunks = <<>> /\ raised = <<>>
    /\ errAcc = <<>> /\ cst = "none" /\ exitCode = 0 /\ cop = <<>>
    /\ outW = <<>> /\ errW = <<>> /\ readsStdin = FALSE /\ rcSet = FALSE
    /\ outPipe = <<>> /\ outBuf = <<>> /\ outPaused = FALSE /\ outEof = FALSE
    /\ errPipe = <<>> /\ errBuf = <<>> /\ errPaused = FALSE /\ errEof = FALSE
    /\ sData = <<>> /\ sbuf = <<>> /\ spipe = <<>> /\ sIn = <<>>
    /\ spaused = FALSE /\ sclosing = FALSE /\ slost = FALSE

Received(r) ==
    /\ req = r /\ hpc = "Recv" /\ cmd = <<>> /\ run = NotSpawned
    /\ resp = Ok(<<>>)
    /\ Idle

\* a buffered handler: run the command, answer, done
Buffered(c, o, answer) ==
    /\ cmd' = c
    /\ run' = o
    /\ resp' = answer
    /\ hpc' = "Done"
    /\ UNCHANGED <<req, streamVars>>

\* return StreamingResponse(generator(cmd), media_type="text/plain")
Streaming(c, k) ==
    /\ cmd' = c
    /\ resp' = Ok(<<"StreamingResponse">>)
    /\ kind' = k
    /\ hpc' = "Done"
    /\ UNCHANGED <<req, run, rpc, chunks, raised, errAcc, cst, exitCode, cop,
                   outW, errW, readsStdin, rcSet, outPipe, outBuf, outPaused,
                   outEof, errPipe, errBuf, errPaused, errEof, sData, sbuf,
                   spipe, sIn, spaused, sclosing, slost>>

GetModels ==
    /\ hpc = "Recv" /\ req.ep = "models"
    /\ \E o \in Outcomes(Docs) : Buffered(ModelsCmd, o, ModelsResponse(o))

GetTemplates ==
    /\ hpc = "Recv" /\ req.ep = "templates"
    /\ \E o \in Outcomes(TemplateTexts) :
          Buffered(TemplatesCmd, o, TemplatesResponse(o))

GetTools ==
    /\ hpc = "Recv" /\ req.ep = "tools"
    /\ \E o \in Outcomes(Docs) : Buffered(ToolsCmd, o, ToolsResponse(o))

GetLogs ==
    /\ hpc = "Recv" /\ req.ep = "logs"
    /\ \E o \in Outcomes(Docs) :
          Buffered(LogsCmd(req.param[1]), o, LogsResponse(o))

GetHelp ==
    /\ hpc = "Recv" /\ req.ep = "help"
    /\ \E o \in Outcomes(OutTexts) :
          Buffered(HelpCmd(req.param), o, HelpResponse(o, HelpCmd(req.param)))

\* list_conversations on a run drawn from outs
ListConversationsOn(outs) ==
    /\ hpc = "Recv" /\ req.ep = "conversations"
    /\ \E o \in outs :
          Buffered(LogsCmd(PyInt(<<"0">>)), o,
                   ConversationsResponse(o, req.param[1]))

ListConversations == ListConversationsOn(Outcomes(RowDocs))

GetConversation ==
    /\ hpc = "Recv" /\ req.ep = "conversation"
    /\ \E o \in Outcomes(Docs) :
          Buffered(ConversationCmd(req.param[1]), o, ConversationResponse(o))

ExecutePrompt ==
    /\ hpc = "Recv" /\ req.ep = "prompt"
    /\ IF ~UnpackOk(req.attachment_types)
       THEN /\ resp' = Unhandled
            /\ hpc' = "Done"
            /\ UNCHANGED <<req, cmd, run, streamVars>>
       ELSE IF req.stream
       THEN Streaming(PromptCmd(req), "prompt")
       ELSE \E o \in Outcomes(OutTexts) :
               Buffered(PromptCmd(req), o, PromptResponse(o))

ChatMessage ==
    /\ hpc = "Recv" /\ req.ep = "chat"
    /\ Streaming(ChatCmd(req), "chat")

----------------------------------------------------------------------------
(* The streaming generators: bytes, chunks and exceptions.                 *)

Newline == "\n"

\* a byte that starts no UTF-8 character
BadByte == "0xff"

OutBytes == {"a", Newline, BadByte}

ErrBytes == {"e"}

StreamExitCodes == {0, 1}

Digit(n) ==
    CASE n = 0 -> "0" [] n = 1 -> "1" [] n = 2 -> "2" [] n = 3 -> "3"
      [] OTHER -> "n"

\* bytes.decode('utf-8'): the text, or the UnicodeDecodeError it raises
Decode(bs) ==
    LET bad == IndexOf(bs, BadByte, 0)
    IN IF bad = -1 THEN [ok |-> TRUE, text |-> bs]
       ELSE [ok |-> FALSE,
             text |-> <<"'utf-8' codec can't decode byte 0xff in position ",
                        Digit(bad), ": invalid start byte">>]

\* f"\nError: {text}"
ErrorChunk(text) == <<"\nError: ">> \o text

IsErrorChunk(ch) == ch # <<>> /\ ch[1] = "\nError: "

\* a mutant of ExceptYield: the exception ends the stream with no chunk
ExceptSilent(chs, text) == chs

\* except Exception as e: yield f"\nError: {str(e)}"
ExceptYield(chs, text) == Append(chs, ErrorChunk(text))

\* a mutant of ExitChunks: an empty stderr is not worth a chunk
ExitChunksNonEmpty(code, text) ==
    IF code # 0 /\ text # <<>> THEN <<ErrorChunk(text)>> ELSE <<>>

\* if process.returncode != 0: yield f"\nError: {stderr.decode('utf-8')}"
ExitChunks(code, text) == IF code # 0 THEN <<ErrorChunk(text)>> ELSE <<>>

\* an exception reaches the except clause: its chunk ends the stream
Catch(type, text) ==
    /\ raised' = <<type, text>>
    /\ chunks' = ExceptYield(chunks, text)
    /\ rpc' = "Finalized"

\* StreamReader._maybe_resume_transport
Resumed(paused, buf) == IF paused /\ Len(buf) <= Limit THEN FALSE ELSE paused

\* StreamReader.feed_data pauses the transport above twice the limit
Paused(paused, buf) == paused \/ Len(buf) > 2 * Limit

\* the stdin pipe transport reported connection_lost
StdinDisconnected == slost \/ (sclosing /\ sbuf = <<>>)

\* every pipe of the child has disconnected and its exit was recorded:
\* only then are the futures of process.wait() resolved
Finished ==
    /\ rcSet /\ outEof /\ errEof
    /\ kind = "chat" => StdinDisconnected

childVars == <<cst, exitCode, cop, outW, errW, readsStdin>>
outVars == <<outPipe, outBuf, outPaused, outEof>>
errVars == <<errPipe, errBuf, errPaused, errEof>>
stdinVars == <<sData, sbuf, spipe, sIn, spaused, sclosing, slost>>

\* await asyncio.create_subprocess_exec(*cmd, ...)
Spawn ==
    /\ hpc = "Done" /\ kind # "none" /\ rpc = "NotStarted"
    /\ \E ok \in BOOLEAN, rs \in BOOLEAN :
         IF ~ok
         THEN /\ ~rs
              /\ Catch("FileNotFoundError", NoSuchFile)
              /\ UNCHANGED <<cst, readsStdin>>
         ELSE /\ rs => kind = "chat"
              /\ cst' = "running"
              /\ readsStdin' = rs
              /\ rpc' = IF kind = "chat" THEN "Write" ELSE "ReadLine"
              /\ UNCHANGED <<chunks, raised>>
    /\ UNCHANGED <<handlerVars, kind, errAcc, exitCode, cop, outW, errW,
                   rcSet, outVars, errVars, stdinVars>>

\* process.stdin.write((message + '\n').encode('utf-8'))
StdinWrite ==
    /\ rpc = "Write"
    /\ LET data == req.text \o <<Newline>>
           n == Min(PipeCap - Len(spipe), Len(data))
       IN /\ sData' = Append(sData, <<"write", data>>)
          /\ IF slost
             THEN UNCHANGED <<sbuf, spipe, spaused, slost>>
             ELSE IF cst = "exited"
             THEN /\ slost' = TRUE
                  /\ UNCHANGED <<sbuf, spipe, spaused>>
             ELSE /\ spipe' = spipe \o Take(data, n)
                  /\ sbuf' = Drop(data, n)
                  /\ spaused' = (Len(sbuf') > HighWater)
                  /\ UNCHANGED slost
    /\ rpc' = "Drain"
    /\ UNCHANGED <<handlerVars, kind, chunks, raised, errAcc, childVars,
                   rcSet, outVars, errVars, sIn, sclosing>>

\* process.stdin.close()
StdinClose ==
    /\ sData' = Append(sData, <<"close", <<>>>>)
    /\ sclosing' = TRUE
    /\ rpc' = "ReadLine"
    /\ UNCHANGED <<chunks, raised>>

\* await process.stdin.drain(), then process.stdin.close()
Drain ==
    /\ rpc = "Drain"
    /\ IF slost
       THEN /\ Catch("ConnectionResetError", <<"Connection lost">>)
            /\ UNCHANGED <<sData, sclosing>>
       ELSE IF ~spaused
       THEN StdinClose
       ELSE /\ rpc' = "DrainWait"
            /\ UNCHANGED <<chunks, raised, sData, sclosing>>
    /\ UNCHANGED <<handlerVars, kind, errAcc, childVars, rcSet, outVars,
                   errVars, sbuf, spipe, sIn, spaused, slost>>

\* the future drain() waits on is resolved: writing resumed, or the
\* connection was lost with bytes still buffered (BrokenPipeError)
DrainWake ==
    /\ rpc = "DrainWait"
    /\ ~spaused \/ slost
    /\ IF ~spaused
       THEN StdinClose
       ELSE /\ Catch("BrokenPipeError", <<>>)
            /\ UNCHANGED <<sData, sclosing>>
    /\ UNCHANGED <<handlerVars, kind, errAcc, childVars, rcSet, outVars,
                   errVars, sbuf, spipe, sIn, spaused, slost>>

\* yield line.decode('utf-8')
Yield(line) ==
    IF Decode(line).ok
    THEN /\ chunks' = Append(chunks, Decode(line).text)
         /\ rpc' = "ReadLine"
         /\ UNCHANGED raised
    ELSE Catch("UnicodeDecodeError", Decode(line).text)

\* line = await process.stdout.readline(); if not line: break; yield ...
ReadLine ==
    /\ rpc = "ReadLine"
    /\ LET isep == IndexOf(outBuf, Newline, 0)
       IN /\ isep # -1 \/ Len(outBuf) > Limit \/ outEof
          /\ IF isep # -1
             THEN /\ outBuf' = Drop(outBuf, isep + 1)
                  /\ IF isep > Limit
                     THEN Catch("ValueError",
                            <<"Separator is found, but chunk is longer than limit">>)
                     ELSE Yield(Take(outBuf, isep + 1))
             ELSE /\ outBuf' = <<>>
                  /\ IF Len(outBuf) > Limit
                     THEN Catch("ValueError",
                            <<"Separator is not found, and chunk exceed the limit">>)
                     ELSE IF outBuf = <<>>
                     THEN /\ rpc' = "Wait"
                          /\ UNCHANGED <<chunks, raised>>
                     ELSE Yield(outBuf)
    /\ outPaused' = Resumed(outPaused, outBuf')
    /\ UNCHANGED <<handlerVars, kind, errAcc, childVars, rcSet, outPipe,
                   outEof, errVars, stdinVars>>

\* what follows "await process.wait()"
AfterWait ==
    /\ rpc' = IF exitCode # 0 THEN "ReadErr" ELSE "Finalized"
    /\ UNCHANGED <<handlerVars, kind, chunks, raised, errAcc, childVars,
                   rcSet, outVars, errVars, stdinVars>>

\* await process.wait(): returns at once when the return code is known,
\* else queues a future
Wait ==
    /\ rpc = "Wait"
    /\ IF rcSet THEN AfterWait
       ELSE /\ rpc' = "WaitExit"
            /\ UNCHANGED <<handlerVars, kind, chunks, raised, errAcc,
                           childVars, rcSet, outVars, errVars, stdinVars>>

\* the future of process.wait() is resolved
WaitWake ==
    /\ rpc = "WaitExit"
    /\ Finished
    /\ AfterWait

\* stderr = await process.stderr.read(): blocks of at most limit bytes
\* until EOF, then the error chunk
ReadErr ==
    /\ rpc = "ReadErr"
    /\ errBuf # <<>> \/ errEof
    /\ IF errBuf # <<>>
       THEN /\ errAcc' = errAcc \o Take(errBuf, Limit)
            /\ errBuf' = Drop(errBuf, Limit)
            /\ errPaused' = Resumed(errPaused, errBuf')
            /\ UNCHANGED <<rpc, chunks, raised>>
       ELSE /\ IF Decode(errAcc).ok
               THEN /\ chunks' = chunks \o ExitChunks(exitCode, Decode(errAcc).text)
                    /\ rpc' = "Finalized"
                    /\ UNCHANGED raised
               ELSE Catch("UnicodeDecodeError", Decode(errAcc).text)
            /\ UNCHANGED <<errAcc, errBuf, errPaused>>
    /\ UNCHANGED <<handlerVars, kind, childVars, rcSet, outVars, errPipe,
                   errEof, stdinVars>>

----------------------------------------------------------------------------
(* The event loop: callbacks that run while the generator is suspended.    *)

runnerVars == <<kind, rpc, chunks, raised, errAcc>>

\* _UnixReadPipeTransport._read_ready on stdout: data_received
LoopReadOut ==
    /\ ~outPaused /\ ~outEof /\ outPipe # <<>>
    /\ outBuf' = outBuf \o outPipe
    /\ outPipe' = <<>>
    /\ outPaused' = Paused(outPaused, outBuf')
    /\ UNCHANGED <<handlerVars, runnerVars, childVars, rcSet, outEof,
                   errVars, stdinVars>>

\* _read_ready on stdout reads b'': feed_eof
LoopEofOut ==
    /\ ~outPaused /\ ~outEof /\ outPipe = <<>> /\ cst = "exited"
    /\ outEof' = TRUE
    /\ UNCHANGED <<handlerVars, runnerVars, childVars, rcSet, outPipe,
                   outBuf, outPaused, errVars, stdinVars>>

LoopReadErr ==
    /\ ~errPaused /\ ~errEof /\ errPipe # <<>>
    /\ errBuf' = errBuf \o errPipe
    /\ errPipe' = <<>>
    /\ errPaused' = Paused(errPaused, errBuf')
    /\ UNCHANGED <<handlerVars, runnerVars, childVars, rcSet, errEof,
                   outVars, stdinVars>>

LoopEofErr ==
    /\ ~errPaused /\ ~errEof /\ errPipe = <<>> /\ cst = "exited"
    /\ errEof' = TRUE
    /\ UNCHANGED <<handlerVars, runnerVars, childVars, rcSet, errPipe,
                   errBuf, errPaused, outVars, stdinVars>>

\* the child watcher reports the exit: BaseSubprocessTransport._process_exited
LoopProcessExited ==
    /\ cst = "exited" /\ ~rcSet
    /\ rcSet' = TRUE
    /\ UNCHANGED <<handlerVars, runnerVars, childVars, outVars, errVars,
                   stdinVars>>

\* _UnixWritePipeTransport._write_ready: flush the buffer into the pipe
LoopFlushStdin ==
    /\ ~slost /\ sbuf # <<>> /\ Len(spipe) < PipeCap /\ cst = "running"
    /\ LET n == Min(PipeCap - Len(spipe), Len(sbuf))
       IN /\ spipe' = spipe \o Take(sbuf, n)
          /\ sbuf' = Drop(sbuf, n)
          /\ spaused' = IF sbuf' = <<>> THEN FALSE ELSE spaused
    /\ UNCHANGED <<handlerVars, runnerVars, childVars, rcSet, outVars,
                   errVars, sData, sIn, sclosing, slost>>

\* the child's end of stdin is gone: the transport closes, dropping its buffer
LoopStdinLost ==
    /\ kind = "chat" /\ cst = "exited" /\ ~StdinDisconnected
    /\ slost' = TRUE
    /\ sbuf' = <<>>
    /\ UNCHANGED <<handlerVars, runnerVars, childVars, rcSet, outVars,
                   errVars, sData, spipe, sIn, spaused, sclosing>>

----------------------------------------------------------------------------
(* The child process: any finite sequence of writes, then exit.            *)

Room(fd) == IF fd = "out" THEN Len(outPipe) < PipeCap ELSE Len(errPipe) < PipeCap

\* a write(2) that found room in the pipe
Written(fd, b) ==
    IF fd = "out"
    THEN /\ outPipe' = Append(outPipe, b)
         /\ outW' = Append(outW, b)
         /\ UNCHANGED <<errPipe, errW>>
    ELSE /\ errPipe' = Append(errPipe, b)
         /\ errW' = Append(errW, b)
         /\ UNCHANGED <<outPipe, outW>>

ChildWrite ==
    /\ cst = "running" /\ cop = <<>>
    /\ \E fd \in {"out", "err"} :
         /\ fd = "out" => Len(outW) < MaxOut
         /\ fd = "err" => Len(errW) < MaxErr
         /\ \E b \in (IF fd = "out" THEN OutBytes ELSE ErrBytes) :
              IF Room(fd)
              THEN Written(fd, b) /\ UNCHANGED cop
              ELSE /\ cop' = <<fd, b>>
                   /\ UNCHANGED <<outPipe, outW, errPipe, errW>>
    /\ UNCHANGED <<handlerVars, runnerVars, cst, exitCode, readsStdin, rcSet,
                   outBuf, outPaused, outEof, errBuf, errPaused, errEof,
                   stdinVars>>

\* the blocked write(2) returns once the pipe has room
ChildUnblock ==
    /\ cst = "running" /\ cop # <<>> /\ Room(cop[1])
    /\ Written(cop[1], cop[2])
    /\ cop' = <<>>
    /\ UNCHANGED <<handlerVars, runnerVars, cst, exitCode, readsStdin, rcSet,
                   outBuf, outPaused, outEof, errBuf, errPaused, errEof,
                   stdinVars>>

ChildReadStdin ==
    /\ cst = "running" /\ readsStdin /\ spipe # <<>>
    /\ sIn' = sIn \o spipe
    /\ spipe' = <<>>
    /\ UNCHANGED <<handlerVars, runnerVars, childVars, rcSet, outVars,
                   errVars, sData, sbuf, spaused, sclosing, slost>>

\* the child exits as soon as its writes are done
ChildExit ==
    /\ cst = "running" /\ cop = <<>>
    /\ \E c \in StreamExitCodes : exitCode' = c
    /\ cst' = "exited"
    /\ UNCHANGED <<handlerVars, runnerVars, cop, outW, errW, readsStdin,
                   rcSet, outVars, errVars, stdinVars>>

----------------------------------------------------------------------------
(* Specifications.                                                         *)

Messages == SeqsUpTo({"h"}, MaxMsg)

StreamRequests ==
    {BaseReq("prompt", <<"p">>)} \cup {BaseReq("chat", m) : m \in Messages}

Init == \E r \in StreamRequests : Received(r)

StreamStep ==
    \/ Spawn \/ StdinWrite \/ Drain \/ DrainWake \/ ReadLine \/ Wait
    \/ WaitWake \/ ReadErr
    \/ LoopReadOut \/ LoopEofOut \/ LoopReadErr \/ LoopEofErr
    \/ LoopProcessExited \/ LoopFlushStdin \/ LoopStdinLost
    \/ ChildWrite \/ ChildUnblock \/ ChildReadStdin \/ ChildExit

Next == ExecutePrompt \/ ChatMessage \/ StreamStep

\* one streamed request from the handler to the end of its stream
Spec == Init /\ [][Next]_vars

----------------------------------------------------------------------------
(* Properties of the streaming generators, checked under Spec.             *)

RECURSIVE LinesOf(_, _)
\* the lines of a byte stream: each ends with its newline, except a last
\* one the stream ends within
LinesOf(bs, cur) ==
    IF bs = <<>> THEN (IF cur = <<>> THEN <<>> ELSE <<cur>>)
    ELSE IF Head(bs) = Newline
         THEN <<Append(cur, Newline)>> \o LinesOf(Tail(bs), <<>>)
    ELSE LinesOf(Tail(bs), Append(cur, Head(bs)))

Awaiting == rpc \in {"Write", "Drain", "DrainWait", "ReadLine", "Wait",
                     "WaitExit", "ReadErr"}

\* C1: a started stream always ends: while the generator has not finalized,
\* some step of the generator, the event loop or the child is still possible,
\* so no await on a pipe read, on the stdin drain or on process exit lasts
\* forever.
C1_StreamNeverHangs == Awaiting => ENABLED Next

\* C2: when the child of a /api/prompt stream has exited with code 0, the
\* finalized stream is exactly the lines the child wrote to stdout, one
\* chunk per line, in order, and no error chunk.
C2_ExactlyTheLines ==
    (kind = "prompt" /\ rpc = "Finalized" /\ cst = "exited" /\ exitCode = 0)
        => chunks = LinesOf(outW, <<>>)

\* C3: when the child of a /api/prompt stream has exited with a non-zero
\* code, the finalized stream is every stdout line in order followed by one
\* last chunk "\nError: " + stderr; and an error chunk is only ever in the
\* stream once stdout is exhausted and the child has exited.
C3_LinesThenStderr ==
    /\ (kind = "prompt" /\ rpc = "Finalized" /\ cst = "exited"
        /\ exitCode # 0)
          => chunks = LinesOf(outW, <<>>) \o <<ErrorChunk(errW)>>
    /\ (kind = "prompt" /\ cst # "none")
          => \A i \in 1..Len(chunks) :
                IsErrorChunk(chunks[i])
                   => cst = "exited" /\ outEof /\ outBuf = <<>>

C5_ExceptionBecomesLastChunk ==
    [][ /\ raised' # <<>> =>
            /\ rpc' = "Finalized"
            /\ chunks' # <<>>
            /\ Last(chunks') = ErrorChunk(raised'[2])
            /\ raised = <<>> => chunks' = Append(chunks, ErrorChunk(raised'[2]))
            /\ raised # <<>> => chunks' = chunks /\ raised' = raised
            /\ raised'[1] = "FileNotFoundError"
                  => chunks' = <<ErrorChunk(NoSuchFile)>>
        /\ rpc = "Finalized" => rpc' = "Finalized" /\ chunks' = chunks
      ]_vars

\* the binary is missing: the stream is the one error chunk
C5_Witness ==
    /\ rpc = "Finalized" /\ cst = "none"
    /\ raised = <<"FileNotFoundError", NoSuchFile>>
    /\ chunks = <<ErrorChunk(NoSuchFile)>>

----------------------------------------------------------------------------
(* BuildSpec: the two builders on every request of a bounded family.       *)

OptionKeys == {<<"k">>, <<"-", "o">>}

OptionValues == {PyStr(<<"v">>), PyInt(<<"1">>), PyTrue}

\* a dict has each key once: its items, in insertion order
OptionDicts ==
    {d \in SeqsUpTo(OptionKeys \X OptionValues, 2) :
        \A i, j \in 1..Len(d) : i # j => d[i][1] # d[j][1]}

OptionMaps == {None} \cup {Some(d) : d \in OptionDicts}

ExtraStrings ==
    SeqsUpTo({"x", " ", "'"}, MaxExtra)
    \cup {<<"-", "o", " ", "k", " ", "v">>, <<"-", "-", "r", "a", "w">>,
          <<"\\">>, <<"\"", "x">>, <<"x", "\\", " ", "y">>}

ExtraArgs == {None} \cup {Some(x) : x \in ExtraStrings}

AttachmentLists ==
    {None, Some(<<<<"f">>>>), Some(<<<<"f">>, <<"g">>>>)}

\* the last one holds an inner list that is no (path, mimetype) pair
AttachmentTypeLists ==
    {None,
     Some(<<<<<<"f">>, <<"m", "t">>>>>>),
     Some(<<<<<<"g">>, <<"m", "t">>>>, <<<<"f">>, <<"m", "u">>>>>>),
     Some(<<<<<<"g">>>>>>)}

\* the other fields: all left out, or all given
Plain(ep, text) == BaseReq(ep, text)

Full(ep, text) ==
    [BaseReq(ep, text) EXCEPT
        !.model = Some(<<"m">>),
        !.system = Some(<<"s">>),
        !.template = IF ep = "prompt" THEN Some(<<"t">>) ELSE None,
        !.conversation_id = IF ep = "chat" THEN Some(<<"c">>) ELSE None,
        !.tools = Some(<<<<"T", "1">>, <<"T", "2">>>>),
        !.reasoning = Some(<<<<<<"e">>, PyStr(<<"h">>)>>>>)]

PromptRequests ==
    {[b EXCEPT !.options = o, !.attachments = a, !.attachment_types = t,
               !.extra_args = x] :
        b \in {Plain("prompt", <<"p">>), Plain("prompt", <<>>),
               Full("prompt", <<"p">>)},
        o \in OptionMaps, a \in AttachmentLists, t \in AttachmentTypeLists,
        x \in ExtraArgs}

BufferedPromptRequests ==
    {[Plain("prompt", <<"p">>) EXCEPT !.stream = FALSE, !.extra_args = x] :
        x \in {None, Some(<<"'">>), Some(<<"x">>)}}

ChatRequests ==
    {[b EXCEPT !.options = o, !.extra_args = x] :
        b \in {Plain("chat", <<"h">>), Full("chat", <<"h">>)},
        o \in OptionMaps, x \in ExtraArgs}

BuildRequests == PromptRequests \cup BufferedPromptRequests \cup ChatRequests

BuildInit == \E r \in BuildRequests : Received(r)

BuildNext == ExecutePrompt \/ ChatMessage

BuildSpec == BuildInit /\ [][BuildNext]_vars

----------------------------------------------------------------------------
(* ListSpec: the endpoints that run the command without streaming.         *)

ListRequests ==
    {BaseReq("models", <<>>), BaseReq("templates", <<>>),
     BaseReq("tools", <<>>)}
    \cup {[BaseReq("logs", <<>>) EXCEPT !.param = Some(PyInt(<<"5">>))]}
    \cup {[BaseReq("help", <<>>) EXCEPT !.param = q] :
             q \in {None, Some(<<"l", "o", "g", "s">>), Some(<<"a", " ", "'">>)}}
    \cup {[BaseReq("conversations", <<>>) EXCEPT !.param = Some(n)] :
             n \in {0, 1, 50}}
    \cup {[BaseReq("conversation", <<>>) EXCEPT !.param = Some(<<"c">>)]}
    \cup BufferedPromptRequests

ListInit == \E r \in ListRequests : Received(r)

ListNext ==
    \/ GetModels \/ GetTemplates \/ GetTools \/ GetLogs \/ GetHelp
    \/ ListConversations \/ GetConversation \/ ExecutePrompt

ListSpec == ListInit /\ [][ListNext]_vars

----------------------------------------------------------------------------
(* The buffered endpoints, under ListSpec.                                 *)

\* C6, as stated: every endpoint that runs the command without streaming,
\* /api/help included, answers a non-zero exit with HTTP 500 whose detail
\* ends with the captured stderr.
C6_NonZeroExitIs500 ==
    (hpc = "Done" /\ run.spawned /\ run.code # 0) =>
        /\ resp.status = 500
        /\ resp.body # <<>>
        /\ Tail(resp.body) = run.err

\* C6, amended: a non-zero exit is answered with HTTP 500 and a detail that is
\* the endpoint's message followed by the captured stderr on every buffered
\* endpoint except /api/help, which answers 200 with stdout or, when stdout
\* is empty, stderr as its help text.
C6_NonZeroExitIs500ExceptHelp ==
    (hpc = "Done" /\ run.spawned /\ run.code # 0) =>
        IF req.ep = "help"
        THEN /\ resp.status = 200
             /\ resp.body.help = (IF run.out # <<>> THEN run.out ELSE run.err)
        ELSE /\ resp.status = 500
             /\ Len(resp.body) = 1 + Len(run.err)
             /\ Tail(resp.body) = run.err

\* a buffered prompt whose command printed text and failed with stderr "e"
C6_Witness ==
    /\ hpc = "Done" /\ req.ep = "prompt" /\ ~req.stream
    /\ run = Exited(2, <<"h", "i">>, <<"e">>)
    /\ resp = [status |-> 500, body |-> <<"LLM command failed: ", "e">>]

ParsesJson == {"models", "tools", "logs", "conversations", "conversation"}

BadJsonOnExit0 ==
    /\ hpc = "Done" /\ run.spawned /\ run.code = 0 /\ ~JsonLoads(run.out).ok

\* C7, as stated: every JSON-parsing listing endpoint, /api/models included,
\* answers a clean exit with unparseable stdout successfully and never with
\* an error response.
C7_BadJsonIsEmptyResult ==
    (req.ep \in ParsesJson /\ BadJsonOnExit0) => resp.status = 200

\* C7, amended: on a clean exit with stdout that is not JSON, /api/tools
\* answers {"tools": []}, /api/logs {"logs": []}, /api/conversations and
\* /api/conversations/{id} [], all with status 200; /api/models answers
\* HTTP 500 "Failed to parse models response".
C7_BadJsonIsEmptyResultExceptModels ==
    (req.ep \in ParsesJson /\ BadJsonOnExit0) =>
        IF req.ep = "models"
        THEN /\ resp.status = 500
             /\ resp.body = <<"Failed to parse models response">>
        ELSE /\ resp.status = 200
             /\ resp.body = CASE req.ep = "tools" -> [tools |-> <<>>]
                              [] req.ep = "logs" -> [logs |-> <<>>]
                              [] OTHER -> <<>>

\* /api/tools after the tool printed text that is not JSON and exited 0
C7_Witness ==
    /\ hpc = "Done" /\ req.ep = "tools"
    /\ run = Exited(0, Garbage(<<"x">>), <<>>)
    /\ resp = [status |-> 200, body |-> [tools |-> <<>>]]

----------------------------------------------------------------------------
(* The argument vector, under BuildSpec.                                   *)

Built == hpc = "Done" /\ cmd # <<>>

OptionTriple(e) == <<Flag("o"), e[1], Str(e[2])>>

\* C8, as stated: each entry of the options mapping occurs exactly once in the
\* vector as the consecutive tokens "-o", key, value, and the entries occur
\* in the mapping's order.
C8_ExactlyOneTriplePerEntry ==
    (Built /\ Truthy(req.options)) =>
        LET d == req.options[1] IN
        /\ \A i \in 1..Len(d) :
              Cardinality(Occurrences(cmd, OptionTriple(d[i]))) = 1
        /\ \A i, j \in 1..Len(d) :
              i < j => \A m \in Occurrences(cmd, OptionTriple(d[i])),
                          n \in Occurrences(cmd, OptionTriple(d[j])) : m < n

\* C8, amended: right after the head flags the vector holds, for the i-th
\* entry of the options mapping, the three tokens "-o", str(key), str(value)
\* at positions 3i-2, 3i-1 and 3i of that segment: key and value are separate
\* tokens, in the mapping's order, with nothing in between.
C8_OptionTriplesAfterHead ==
    (Built /\ Truthy(req.options)) =>
        LET d == req.options[1]
            off == Len(IF req.ep = "prompt" THEN PromptHead(req)
                       ELSE ChatHead(req))
        IN /\ Len(cmd) >= off + 3 * Len(d)
           /\ \A i \in 1..Len(d) :
                 /\ cmd[off + 3 * i - 2] = <<"-", "o">>
                 /\ cmd[off + 3 * i - 1] = d[i][1]
                 /\ cmd[off + 3 * i] = Str(d[i][2])

\* a chat vector built from a two-entry mapping holding a boolean value
C8_Witness ==
    /\ Built /\ req.ep = "chat" /\ Truthy(req.model)
    /\ req.options = Some(<<<<<<"k">>, PyTrue>>, <<<<"-", "o">>, PyStr(<<"v">>)>>>>)
    /\ Occurrences(cmd, <<<<"-", "o">>, <<"k">>, <<"T", "r", "u", "e">>>>) # {}

\* C9: the vector of /api/prompt ends with "-a path" per attachment in input
\* order, then "--at path mimetype" per pair in input order, then the tokens
\* of the extra flags, then the prompt text as the last element.
C9_PromptTailOrder ==
    (Built /\ req.ep = "prompt") =>
        LET a == IF Truthy(req.attachments) THEN req.attachments[1] ELSE <<>>
            t == IF Truthy(req.attachment_types)
                 THEN req.attachment_types[1] ELSE <<>>
            x == IF Truthy(req.extra_args) /\ ShlexSplit(req.extra_args[1]).ok
                 THEN ShlexSplit(req.extra_args[1]).toks ELSE <<>>
            n == Len(cmd)
            xAt == n - Len(x)
            tAt == xAt - 3 * Len(t)
            aAt == tAt - 2 * Len(a)
        IN /\ aAt > 2
           /\ cmd[n] = req.text
           /\ \A i \in 1..Len(x) : cmd[xAt + i - 1] = x[i]
           /\ \A i \in 1..Len(t) :
                 /\ cmd[tAt + 3 * (i - 1)] = <<"-", "-", "a", "t">>
                 /\ cmd[tAt + 3 * (i - 1) + 1] = t[i][1]
                 /\ cmd[tAt + 3 * (i - 1) + 2] = t[i][2]
           /\ \A i \in 1..Len(a) :
                 /\ cmd[aAt + 2 * (i - 1)] = <<"-", "a">>
                 /\ cmd[aAt + 2 * (i - 1) + 1] = a[i]

\* two attachments, two typed attachments, two extra tokens and the prompt
C9_Witness ==
    /\ Built /\ req.ep = "prompt"
    /\ Truthy(req.attachments) /\ Truthy(req.attachment_types)
    /\ Len(req.attachments[1]) = 2 /\ Len(req.attachment_types[1]) = 2
    /\ req.extra_args = Some(<<"x", " ", "x">>)
    /\ Truthy(req.options)
    /\ Last(cmd) = <<"p">>

Untokenizable ==
    Truthy(req.extra_args) /\ ~ShlexSplit(req.extra_args[1]).ok

\* C10: extra flags that shell-word splitting rejects do not fail the request;
\* the vector is the one of the same request without extra flags, and the
\* command is run with it (buffered: the answer is the one its run yields)
\* or handed to the stream generator with it.
C10_BadExtraArgsDropped ==
    (hpc = "Done" /\ Untokenizable /\ UnpackOk(req.attachment_types)) =>
        LET bare == [req EXCEPT !.extra_args = None] IN
        /\ cmd = (IF req.ep = "prompt" THEN PromptCmd(bare) ELSE ChatCmd(bare))
        /\ req.stream => kind = req.ep /\ resp.status = 200
        /\ ~req.stream => resp = PromptResponse(run)

\* a chat request with options whose extra flags are one unbalanced quote
C10_Witness ==
    /\ hpc = "Done" /\ req.ep = "chat" /\ req.extra_args = Some(<<"x", " ", "'">>)
    /\ Truthy(req.options) /\ kind = "chat"
    /\ Last(cmd) = Str(Last(req.options[1])[2])

----------------------------------------------------------------------------
(* ConvSpec: list_conversations on every bounded list of log rows.         *)

Limits == {0, 1, 2, 50}

ConvRequests ==
    {[BaseReq("conversations", <<>>) EXCEPT !.param = Some(n)] : n \in Limits}

ConvInit == \E r \in ConvRequests : Received(r)

ConvNext == ListConversationsOn(CleanRuns)

ConvSpec == ConvInit /\ [][ConvNext]_vars

\* the rows the tool listed, once list_conversations has answered a clean run
Aggregated ==
    /\ hpc = "Done" /\ req.ep = "conversations"
    /\ run.spawned /\ run.code = 0 /\ JsonLoads(run.out).ok
    /\ req.param[1] >= 0

\* the rows of conversation c, and the timestamps they carry
RowsOf(rows, c) ==
    {i \in 1..Len(rows) : rows[i].conversation_id = Some(c)}

Stamps(rows, c) ==
    {rows[i].datetime_utc[1] : i \in {j \in RowsOf(rows, c) :
                                         Truthy(rows[j].datetime_utc)}}

\* C11: for any list of log rows and any limit >= 0, /api/conversations
\* returns one summary per distinct non-empty conversation id: count is the
\* number of rows with that id, latest the lexicographically greatest
\* timestamp among them, model and last_prompt those of a row carrying it;
\* the summaries are ordered by latest descending, only the first limit of
\* them are returned, and rows without an id contribute to no summary.
C11_ConversationSummaries ==
    Aggregated =>
        LET rows == JsonLoads(run.out).val
            out == resp.body
            ids == {rows[i].conversation_id[1] :
                      i \in {j \in 1..Len(rows) :
                               Truthy(rows[j].conversation_id)}}
            returned == {out[k].conversation_id : k \in 1..Len(out)}
        IN /\ resp.status = 200
           /\ Len(out) = Min(req.param[1], Cardinality(ids))
           /\ returned \subseteq ids
           /\ Cardinality(returned) = Len(out)
           /\ \A k \in 1..Len(out) :
                 LET c == out[k].conversation_id
                     ts == Stamps(rows, c)
                 IN /\ out[k].count = Cardinality(RowsOf(rows, c))
                    /\ IF ts = {}
                       THEN ~Truthy(out[k].latest)
                       ELSE /\ Truthy(out[k].latest)
                            /\ out[k].latest[1] \in ts
                            /\ \A t \in ts : ~StrGreater(t, out[k].latest[1])
                            /\ \E i \in RowsOf(rows, c) :
                                  /\ rows[i].datetime_utc = out[k].latest
                                  /\ rows[i].model = out[k].model
                                  /\ rows[i].prompt = out[k].last_prompt
           /\ \A k \in 1..(Len(out) - 1) :
                 ~StrGreater(LatestKey(out[k + 1]), LatestKey(out[k]))
           /\ \A c \in ids \ returned : \A t \in Stamps(rows, c) :
                 \A k \in 1..Len(out) : ~StrGreater(t, LatestKey(out[k]))

\* rows a@"10", a@"2", b@"10": a has count 2 and latest "2" ("2" > "10" as
\* strings) with the prompt and model of its second row, and comes before b
C11_Witness ==
    /\ Aggregated /\ req.param[1] = 50
    /\ Len(JsonLoads(run.out).val) = 3
    /\ resp.body =
         <<[conversation_id |-> <<"a">>, latest |-> Some(<<"2">>),
            model |-> Some(<<"n">>), count |-> 2,
            last_prompt |-> Some(<<"q">>)],
           [conversation_id |-> <<"b">>, latest |-> Some(<<"1", "0">>),
            model |-> Some(<<"m">>), count |-> 1,
            last_prompt |-> Some(<<"p">>)]>>

----------------------------------------------------------------------------
(* The chat generator's use of the child's stdin, under Spec.              *)

\* what stream_llm_chat_response is to do with stdin: one write, one close
WriteThenClose == <<<<"write", req.text \o <<Newline>>>>, <<"close", <<>>>>>>

\* the generator is reading the child's output, or has yielded or ended
PastStdin ==
    chunks # <<>> \/ rpc \in {"ReadLine", "Wait", "WaitExit", "ReadErr", "Finalized"}

\* C12: for every /api/chat request the message is not in the argument
\* vector; once the child is spawned, the message followed by one newline is
\* written to its stdin and stdin is closed before the runner reads or yields
\* anything, and nothing else is ever written to stdin.
C12_WriteThenCloseBeforeOutput ==
    kind = "chat" =>
        /\ cmd = <<<<"l", "l", "m">>, <<"c", "h", "a", "t">>>>
        /\ \E n \in 0..2 : sData = Take(WriteThenClose, n)
        /\ (cst # "none" /\ PastStdin) => sData = WriteThenClose

====
